---- MODULE Spec2Model ----
(***************************************************************************)
(* State-machine model of the IntelGraph gateway (server/server.js):       *)
(* port resolution, startup/shutdown lifecycle, the GraphQL auth context   *)
(* for requests and subscription connections, Socket.IO rooms, and the     *)
(* request pipeline (CORS, rate limiters, routes, /health).                *)
(***************************************************************************)
EXTENDS Integers, Sequences, FiniteSets, TLC

(* ---------------------------------------------------------------------- *)
(* Bounds of the model                                                     *)
(* ---------------------------------------------------------------------- *)
\* number of ports below the upper bound that the environment describes
PortSpan == 2
\* connections a client may hold open to one real listener
MaxConns == 1
\* context objects allocated in one behaviour
MaxObjects == 2
\* operations sent over one subscription connection
MaxOps == 2
\* requests of one client that one rate limiter counts within one window
MaxCount == 6
\* advances of the clock between requests
MaxTicks == 1

(* ---------------------------------------------------------------------- *)
(* Program constants                                                       *)
(* ---------------------------------------------------------------------- *)
\* the inclusive upper bound of the probe (startPort >= 5000)
PortLimit == 5000

\* two gateway processes started on the same host
Runs == {"g1", "g2"}
Deps == {"neo4j", "postgres", "redis"}
Ports == (PortLimit - PortSpan)..PortLimit
\* what a bind on a port meets: nobody, another program, or a refusal (EACCES)
EnvStatus == {"free", "ext", "denied"}

VARIABLES
    portState,   \* port -> "free" | "ext" | "denied" | the run holding it
    configPort,  \* config.port
    pc,          \* run -> position in startServer / the SIGTERM handler
    probePort,   \* run -> startPort of the current findAvailablePort call
    PORT,        \* run -> the resolved port (0 before resolution)
    deps,        \* run -> dependency -> "idle" | "connected" | "closed"
    listening,   \* run -> the real listener accepts connections
    conns,       \* run -> open connections of the real listener
    exitCode,    \* run -> status passed to process.exit (-1 while running)
    failure,     \* run -> the error that ended the run ("none" otherwise)
    everBound,   \* run -> some listener (probe or real) has bound in this run
    sigterm,     \* run -> SIGTERM was received while serving
    calls,       \* run -> [resolve, listen]: calls of findAvailablePort / httpServer.listen
    probes       \* run -> the ports the resolver has tried to bind, in order

lifeVars == <<portState, configPort, pc, probePort, PORT, deps, listening,
              conns, exitCode, failure, everBound, sigterm, calls, probes>>

VARIABLES
    heap,        \* the context objects built so far; an object's identity is its index
    lastReq,     \* the last discrete GraphQL request and the context built for it
    wsConn       \* subscription connection -> its handshake and the operations on it

authVars == <<heap, lastReq, wsConn>>

VARIABLES
    sockState,     \* socket -> "new" | "connected" | "disconnected"
    rooms,         \* room name -> the sockets in the room
    lastEvt,       \* socket -> investigation id -> its last join/leave event
    lastBroadcast, \* the last room broadcast: its room, its receivers (to), and
                   \* those of them that were already disconnected (gone)
    repeat         \* "join" / "leave" when the last socket event was a join by a
                   \* member / a leave by a non-member, "none" otherwise

roomVars == <<sockState, rooms, lastEvt, lastBroadcast, repeat>>

VARIABLES
    config,      \* the loaded configuration: env, cors.origin, rateLimit
    now,         \* the clock, in milliseconds since the limiters were built
    ticks,       \* advances of the clock so far
    limiter,     \* rule -> [hits, resetAt]: the client's entry in the rule's store
    last,        \* the last HTTP request of the client and its response
    attempt      \* [n, since]: requests to the authentication endpoints that
                 \* passed origin validation in the 15 minutes from since

pipeVars == <<config, now, ticks, limiter, last, attempt>>

appVars == <<authVars, roomVars, pipeVars>>

vars == <<lifeVars, authVars, roomVars, pipeVars>>

(* ---------------------------------------------------------------------- *)
(* Helpers                                                                 *)
(* ---------------------------------------------------------------------- *)
Min(S) == CHOOSE x \in S : \A y \in S : x <= y

\* ports held by run r are given back to the system
Released(r) == [p \in Ports |-> IF portState[p] = r THEN "free" ELSE portState[p]]

\* process.exit(code): every socket of the process is closed
Exit(r, code, why) ==
    /\ pc' = [pc EXCEPT ![r] = "exited"]
    /\ exitCode' = [exitCode EXCEPT ![r] = code]
    /\ failure' = [failure EXCEPT ![r] = why]
    /\ portState' = Released(r)
    /\ listening' = [listening EXCEPT ![r] = FALSE]
    /\ conns' = [conns EXCEPT ![r] = 0]

(* ---------------------------------------------------------------------- *)
(* findAvailablePort                                                       *)
(* ---------------------------------------------------------------------- *)
\* (variant: every bind error counts as a conflict)
AnyBindError(p) == portState[p] # "free"
\* err.code === 'EADDRINUSE': the port is held by another program or run
InUse(p) == portState[p] \notin {"free", "denied"}

\* (variant: the range ends one port early)
RangeExhaustedEarly(startPort) == startPort >= PortLimit - 1
\* startPort >= 5000
RangeExhausted(startPort) == startPort >= PortLimit

\* server.listen(startPort) of the probe and its 'error' handler
ProbeListen(r) ==
    /\ pc[r] = "resolve"
    /\ probes' = [probes EXCEPT ![r] = Append(@, probePort[r])]
    /\ \/ /\ portState[probePort[r]] = "free"
          /\ portState' = [portState EXCEPT ![probePort[r]] = r]
          /\ pc' = [pc EXCEPT ![r] = "probeBound"]
          /\ everBound' = [everBound EXCEPT ![r] = TRUE]
          /\ UNCHANGED <<probePort, exitCode, failure, listening, conns>>
       \/ /\ InUse(probePort[r])
          /\ RangeExhausted(probePort[r])
          /\ Exit(r, 1, "PortRangeExhausted")
          /\ UNCHANGED <<probePort, everBound>>
       \/ /\ InUse(probePort[r])
          /\ ~RangeExhausted(probePort[r])
          /\ probePort' = [probePort EXCEPT ![r] = @ + 1]
          /\ UNCHANGED <<portState, pc, exitCode, failure, listening, conns, everBound>>
       \/ /\ portState[probePort[r]] = "denied"
          /\ Exit(r, 1, "probeError")
          /\ UNCHANGED <<probePort, everBound>>
    /\ UNCHANGED <<configPort, PORT, deps, sigterm, calls>>
    /\ UNCHANGED appVars

\* server.close(() => resolve(port)); const PORT = await findAvailablePort(...)
ProbeClose(r) ==
    /\ pc[r] = "probeBound"
    /\ portState' = Released(r)
    /\ PORT' = [PORT EXCEPT ![r] = probePort[r]]
    /\ pc' = [pc EXCEPT ![r] = "bind"]
    /\ UNCHANGED <<configPort, probePort, deps, listening, conns, exitCode,
                   failure, everBound, sigterm, calls>>
    /\ UNCHANGED appVars
    /\ UNCHANGED probes

(* ---------------------------------------------------------------------- *)
(* startServer                                                             *)
(* ---------------------------------------------------------------------- *)
\* startServer() is called at module load
Launch(r) ==
    /\ pc[r] = "off"
    /\ pc' = [pc EXCEPT ![r] = "init"]
    /\ UNCHANGED <<portState, configPort, probePort, PORT, deps, listening, conns,
                   exitCode, failure, everBound, sigterm, calls>>
    /\ UNCHANGED appVars
    /\ UNCHANGED probes

\* express(), createServer, initSocket, setIO, startAIWorker, bridge.start
InitRealtime(r) ==
    /\ pc[r] = "init"
    /\ pc' = [pc EXCEPT ![r] = "neo4j"]
    /\ UNCHANGED <<portState, configPort, probePort, PORT, deps, listening, conns,
                   exitCode, failure, everBound, sigterm, calls>>
    /\ UNCHANGED appVars
    /\ UNCHANGED probes

\* (variant: the rejection is swallowed and startup goes on)
ConnectDepSwallow(r, at, d, next) ==
    /\ pc[r] = at
    /\ \/ deps' = [deps EXCEPT ![r][d] = "connected"]
       \/ UNCHANGED deps
    /\ pc' = [pc EXCEPT ![r] = next]
    /\ UNCHANGED <<portState, listening, conns, exitCode, failure>>
    /\ UNCHANGED <<configPort, probePort, PORT, everBound, sigterm, calls>>
    /\ UNCHANGED appVars
    /\ UNCHANGED probes

\* await connectX(): resolves, or rejects into the catch block (process.exit(1))
ConnectDep(r, at, d, next) ==
    /\ pc[r] = at
    /\ \/ /\ deps' = [deps EXCEPT ![r][d] = "connected"]
          /\ pc' = [pc EXCEPT ![r] = next]
          /\ UNCHANGED <<portState, listening, conns, exitCode, failure>>
       \/ /\ Exit(r, 1, "dependency")
          /\ UNCHANGED deps
    /\ UNCHANGED <<configPort, probePort, PORT, everBound, sigterm, calls>>
    /\ UNCHANGED appVars
    /\ UNCHANGED probes

ConnectNeo4j(r) == ConnectDep(r, "neo4j", "neo4j", "postgres")
ConnectPostgres(r) == ConnectDep(r, "postgres", "postgres", "redis")
ConnectRedis(r) == ConnectDep(r, "redis", "redis", "setup")

\* middleware installation, apolloServer.start(), then the call of
\* findAvailablePort(config.port); a throw lands in the catch block
Setup(r) ==
    /\ pc[r] = "setup"
    /\ \/ /\ pc' = [pc EXCEPT ![r] = "resolve"]
          /\ probePort' = [probePort EXCEPT ![r] = configPort]
          /\ calls' = [calls EXCEPT ![r].resolve = @ + 1]
          /\ UNCHANGED <<portState, listening, conns, exitCode, failure>>
       \/ /\ Exit(r, 1, "startup")
          /\ UNCHANGED <<probePort, calls>>
    /\ UNCHANGED <<configPort, PORT, deps, everBound, sigterm>>
    /\ UNCHANGED appVars
    /\ UNCHANGED probes

\* (variant: a bind on a held port goes through)
ListenIgnoringConflict(r) == TRUE
\* the bind of httpServer.listen(PORT) succeeds only on a port nobody holds
ListenSucceeds(r) == portState[PORT[r]] = "free"

\* httpServer.listen(PORT) and httpServer.on('error'): a failed bind is fatal
RealListen(r) ==
    /\ pc[r] = "bind"
    /\ calls' = [calls EXCEPT ![r].listen = @ + 1]
    /\ \/ /\ ListenSucceeds(r)
          /\ portState' = [portState EXCEPT ![PORT[r]] = r]
          /\ listening' = [listening EXCEPT ![r] = TRUE]
          /\ everBound' = [everBound EXCEPT ![r] = TRUE]
          /\ pc' = [pc EXCEPT ![r] = "serving"]
          /\ UNCHANGED <<conns, exitCode, failure>>
       \/ /\ ~ListenSucceeds(r)
          /\ Exit(r, 1, "bindConflict")
          /\ UNCHANGED everBound
    /\ UNCHANGED <<configPort, probePort, PORT, deps, sigterm>>
    /\ UNCHANGED appVars
    /\ UNCHANGED probes

\* an 'error' event of the listening httpServer other than a bind conflict
ServerError(r) ==
    /\ listening[r]
    /\ Exit(r, 1, "serverError")
    /\ UNCHANGED <<configPort, probePort, PORT, deps, everBound, sigterm, calls>>
    /\ UNCHANGED appVars
    /\ UNCHANGED probes

(* ---------------------------------------------------------------------- *)
(* Clients of the real listener                                            *)
(* ---------------------------------------------------------------------- *)
\* a client connects (HTTP keep-alive, WebSocket): only an open listener accepts
Accept(r) ==
    /\ listening[r]
    /\ conns[r] < MaxConns
    /\ conns' = [conns EXCEPT ![r] = @ + 1]
    /\ UNCHANGED <<portState, configPort, pc, probePort, PORT, deps, listening,
                   exitCode, failure, everBound, sigterm, calls>>
    /\ UNCHANGED appVars
    /\ UNCHANGED probes

\* a client ends one of its connections; nothing obliges it to
ConnEnd(r) ==
    /\ conns[r] > 0
    /\ conns' = [conns EXCEPT ![r] = @ - 1]
    /\ UNCHANGED <<portState, configPort, pc, probePort, PORT, deps, listening,
                   exitCode, failure, everBound, sigterm, calls>>
    /\ UNCHANGED appVars
    /\ UNCHANGED probes

(* ---------------------------------------------------------------------- *)
(* process.on('SIGTERM')                                                   *)
(* ---------------------------------------------------------------------- *)
\* the signal arrives; the handler logs and calls apolloServer.stop()
Sigterm(r) ==
    /\ pc[r] = "serving"
    /\ pc' = [pc EXCEPT ![r] = "stopApollo"]
    /\ sigterm' = [sigterm EXCEPT ![r] = TRUE]
    /\ UNCHANGED <<portState, configPort, probePort, PORT, deps, listening, conns,
                   exitCode, failure, everBound, calls>>
    /\ UNCHANGED appVars
    /\ UNCHANGED probes

\* await apolloServer.stop() resolves; closeConnections() is called
ApolloStop(r) ==
    /\ pc[r] = "stopApollo"
    /\ pc' = [pc EXCEPT ![r] = "closeDeps"]
    /\ UNCHANGED <<portState, configPort, probePort, PORT, deps, listening, conns,
                   exitCode, failure, everBound, sigterm, calls>>
    /\ UNCHANGED appVars
    /\ UNCHANGED probes

\* await closeConnections() resolves: the three stores are closed
CloseConnections(r) ==
    /\ pc[r] = "closeDeps"
    /\ deps' = [deps EXCEPT ![r] = [d \in Deps |-> "closed"]]
    /\ pc' = [pc EXCEPT ![r] = "httpClose"]
    /\ UNCHANGED <<portState, configPort, probePort, PORT, listening, conns,
                   exitCode, failure, everBound, sigterm, calls>>
    /\ UNCHANGED appVars
    /\ UNCHANGED probes

\* httpServer.close(callback): the listener stops accepting; the callback
\* waits for the 'close' event, emitted when no connection is left
HttpClose(r) ==
    /\ pc[r] = "httpClose"
    /\ listening' = [listening EXCEPT ![r] = FALSE]
    /\ portState' = Released(r)
    /\ pc' = [pc EXCEPT ![r] = "closing"]
    /\ UNCHANGED <<configPort, probePort, PORT, deps, conns, exitCode, failure,
                   everBound, sigterm, calls>>
    /\ UNCHANGED appVars
    /\ UNCHANGED probes

\* 'close' event: logger.info('Process terminated'); process.exit(0)
ExitAfterDrain(r) ==
    /\ pc[r] = "closing"
    /\ conns[r] = 0
    /\ Exit(r, 0, "none")
    /\ UNCHANGED <<configPort, probePort, PORT, deps, everBound, sigterm, calls>>
    /\ UNCHANGED appVars
    /\ UNCHANGED probes

(* ---------------------------------------------------------------------- *)
(* process.on('uncaughtException') / process.on('unhandledRejection')      *)
(* ---------------------------------------------------------------------- *)
\* (variant: the handler exits with status 0)
FaultExitsClean(r) ==
    /\ pc[r] \notin {"off", "exited"}
    /\ Exit(r, 0, "fault")
    /\ UNCHANGED <<configPort, probePort, PORT, deps, everBound, sigterm, calls>>
    /\ UNCHANGED appVars
    /\ UNCHANGED probes

\* an exception escapes all handling, or a promise rejects unhandled
Fault(r) ==
    /\ pc[r] \notin {"off", "exited"}
    /\ Exit(r, 1, "fault")
    /\ UNCHANGED <<configPort, probePort, PORT, deps, everBound, sigterm, calls>>
    /\ UNCHANGED appVars
    /\ UNCHANGED probes

(* ---------------------------------------------------------------------- *)
(* Auth context: ApolloServer context and subscriptions.onConnect          *)
(* ---------------------------------------------------------------------- *)
\* a string is a sequence of symbols; "Bearer " is the scheme prefix
Texts == {<<>>, <<"Bearer ">>, <<"good">>, <<"bad">>, <<"Bearer ", "good">>,
          <<"Bearer ", "bad">>, <<"good", "Bearer ">>, <<"Bearer ", "Bearer ", "good">>}
\* req.headers.authorization / connectionParams.authorization: absent or a string
Headers == {[def |-> FALSE, text |-> <<>>]} \cup {[def |-> TRUE, text |-> t] : t \in Texts}
WsConns == {"w1", "w2"}
Null == "null"

RECURSIVE ReplaceFirst(_, _)
\* String.prototype.replace(pattern, ''): the first occurrence is removed
ReplaceFirst(s, pat) ==
    IF s = <<>> THEN <<>>
    ELSE IF Head(s) = pat THEN Tail(s)
    ELSE <<Head(s)>> \o ReplaceFirst(Tail(s), pat)

\* authorization?.replace('Bearer ', ''): undefined stays undefined
TokenOf(h) == [def |-> h.def, text |-> ReplaceFirst(h.text, "Bearer ")]

\* (variant: only undefined is falsy)
TruthyDefinedOnly(token) == token.def
\* if (token): undefined and the empty string are falsy
Truthy(token) == token.def /\ token.text # <<>>

\* AuthService.verifyToken(credential) -> identity | absent
verifyToken(token) == IF token.text = <<"good">> THEN "alice" ELSE Null

\* let user = null; if (token) { user = await authService.verifyToken(token) }
ResolveUser(h) ==
    IF Truthy(TokenOf(h))
    THEN [reply |-> verifyToken(TokenOf(h)), user |-> verifyToken(TokenOf(h)), calls |-> 1]
    ELSE [reply |-> "notCalled", user |-> Null, calls |-> 0]

\* return { user, req, logger }
RequestContext(user) == [user |-> user, req |-> "req", logger |-> "logger"]
\* return { user }
HandshakeContext(user) == [user |-> user]

\* context({ req }) of a discrete request
HttpRequest(h) ==
    /\ listening["g1"]
    /\ Len(heap) < MaxObjects
    /\ heap' = Append(heap, RequestContext(ResolveUser(h).user))
    /\ lastReq' = [hdr |-> h, ctx |-> Len(heap) + 1, reply |-> ResolveUser(h).reply,
                   rejected |-> FALSE]
    /\ UNCHANGED wsConn
    /\ UNCHANGED <<lifeVars, roomVars, pipeVars>>

\* onConnect(connectionParams): its result becomes connection.context
WsConnect(c, h) ==
    /\ listening["g1"]
    /\ wsConn[c].state = "new"
    /\ Len(heap) < MaxObjects
    /\ heap' = Append(heap, HandshakeContext(ResolveUser(h).user))
    /\ wsConn' = [wsConn EXCEPT ![c] =
                    [state |-> "open", params |-> h, ctx |-> Len(heap) + 1,
                     reply |-> ResolveUser(h).reply, rejected |-> FALSE,
                     user0 |-> ResolveUser(h).user,
                     verifies |-> ResolveUser(h).calls, ops |-> 0, opCtx |-> {}]]
    /\ UNCHANGED lastReq
    /\ UNCHANGED <<lifeVars, roomVars, pipeVars>>

\* (variant: the operation gets the most recently built context)
OperationContextLatest(c) == Len(heap)
\* if (connection) { return connection.context }
OperationContext(c) == wsConn[c].ctx

\* context({ req, connection }) of an operation on an open connection
WsOperation(c) ==
    /\ wsConn[c].state = "open"
    /\ wsConn[c].ops < MaxOps
    /\ wsConn' = [wsConn EXCEPT ![c].ops = @ + 1,
                                ![c].opCtx = @ \cup {OperationContext(c)}]
    /\ UNCHANGED <<heap, lastReq>>
    /\ UNCHANGED <<lifeVars, roomVars, pipeVars>>

\* the client closes the subscription connection
WsClose(c) ==
    /\ wsConn[c].state = "open"
    /\ wsConn' = [wsConn EXCEPT ![c].state = "closed"]
    /\ UNCHANGED <<heap, lastReq>>
    /\ UNCHANGED <<lifeVars, roomVars, pipeVars>>

NoHeader == [def |-> FALSE, text |-> <<>>]

AuthIdle ==
    /\ heap = <<>>
    /\ lastReq = [hdr |-> NoHeader, ctx |-> 0, reply |-> "notCalled", rejected |-> FALSE]
    /\ wsConn = [c \in WsConns |->
                    [state |-> "new", params |-> NoHeader, ctx |-> 0,
                     reply |-> "notCalled", rejected |-> FALSE, user0 |-> Null,
                     verifies |-> 0, ops |-> 0, opCtx |-> {}]]

(* ---------------------------------------------------------------------- *)
(* Socket.IO rooms: io.on('connection')                                    *)
(* ---------------------------------------------------------------------- *)
Sockets == {"s1", "s2", "s3"}
InvestigationIds == {"a", "b"}
\* `investigation_${investigationId}`
RoomName(investigationId) == <<"investigation_", investigationId>>
RoomNames == {RoomName(i) : i \in InvestigationIds}

\* io.on('connection', (socket) => ...): the three handlers are registered
SocketConnect(s) ==
    /\ listening["g1"]
    /\ sockState[s] = "new"
    /\ sockState' = [sockState EXCEPT ![s] = "connected"]
    /\ repeat' = "none"
    /\ UNCHANGED <<rooms, lastEvt, lastBroadcast>>
    /\ UNCHANGED <<lifeVars, authVars, pipeVars>>

\* (variant: every socket is put in the same room)
JoinedRoomFixed(investigationId) == RoomName("a")
\* the room socket.join is called with
JoinedRoom(investigationId) == RoomName(investigationId)

\* (variant: a join by a member takes the socket out of the room)
JoinInvestigationToggle(s, investigationId) ==
    /\ sockState[s] = "connected"
    /\ rooms' = [rooms EXCEPT ![JoinedRoom(investigationId)] =
                    IF s \in @ THEN @ \ {s} ELSE @ \cup {s}]
    /\ lastEvt' = [lastEvt EXCEPT ![s][investigationId] = "join"]
    /\ repeat' = IF s \in rooms[RoomName(investigationId)] THEN "join" ELSE "none"
    /\ UNCHANGED <<sockState, lastBroadcast>>
    /\ UNCHANGED <<lifeVars, authVars, pipeVars>>

\* socket.on('join_investigation'): socket.join(room)
JoinInvestigation(s, investigationId) ==
    /\ sockState[s] = "connected"
    /\ rooms' = [rooms EXCEPT ![JoinedRoom(investigationId)] = @ \cup {s}]
    /\ lastEvt' = [lastEvt EXCEPT ![s][investigationId] = "join"]
    /\ repeat' = IF s \in rooms[RoomName(investigationId)] THEN "join" ELSE "none"
    /\ UNCHANGED <<sockState, lastBroadcast>>
    /\ UNCHANGED <<lifeVars, authVars, pipeVars>>

\* socket.on('leave_investigation'): socket.leave(room)
LeaveInvestigation(s, investigationId) ==
    /\ sockState[s] = "connected"
    /\ rooms' = [rooms EXCEPT ![RoomName(investigationId)] = @ \ {s}]
    /\ lastEvt' = [lastEvt EXCEPT ![s][investigationId] = "leave"]
    /\ repeat' = IF s \notin rooms[RoomName(investigationId)] THEN "leave" ELSE "none"
    /\ UNCHANGED <<sockState, lastBroadcast>>
    /\ UNCHANGED <<lifeVars, authVars, pipeVars>>

\* the transport takes a closing socket out of every room before 'disconnect'
SocketLeaveAll(s) == [rn \in RoomNames |-> rooms[rn] \ {s}]

\* (variant: the socket stays in its rooms)
DisconnectKeepsRooms(s) ==
    /\ sockState[s] = "connected"
    /\ sockState' = [sockState EXCEPT ![s] = "disconnected"]
    /\ repeat' = "none"
    /\ UNCHANGED <<rooms, lastEvt, lastBroadcast>>
    /\ UNCHANGED <<lifeVars, authVars, pipeVars>>

\* socket.on('disconnect'): the handler itself only logs
Disconnect(s) ==
    /\ sockState[s] = "connected"
    /\ sockState' = [sockState EXCEPT ![s] = "disconnected"]
    /\ rooms' = SocketLeaveAll(s)
    /\ repeat' = "none"
    /\ UNCHANGED <<lastEvt, lastBroadcast>>
    /\ UNCHANGED <<lifeVars, authVars, pipeVars>>

\* broadcast(roomId, eventName, payload): every current member receives it
Broadcast(investigationId) ==
    /\ lastBroadcast' = [sent |-> TRUE, room |-> RoomName(investigationId),
                         to |-> rooms[RoomName(investigationId)],
                         gone |-> {s \in rooms[RoomName(investigationId)] :
                                      sockState[s] = "disconnected"}]
    /\ repeat' = "none"
    /\ UNCHANGED <<sockState, rooms, lastEvt>>
    /\ UNCHANGED <<lifeVars, authVars, pipeVars>>

RoomIdle ==
    /\ sockState = [s \in Sockets |-> "new"]
    /\ rooms = [rn \in RoomNames |-> {}]
    /\ lastEvt = [s \in Sockets |-> [i \in InvestigationIds |-> "none"]]
    /\ lastBroadcast = [sent |-> FALSE, room |-> RoomName("a"), to |-> {}, gone |-> {}]
    /\ repeat = "none"

(* ---------------------------------------------------------------------- *)
(* The request pipeline of gateway g1: CORS, rate limiters, routes         *)
(* ---------------------------------------------------------------------- *)
Envs == {"production", "development", "staging"}
\* a request without an Origin header
NoOrigin == "none"
AllowedOrigin == "https://app.example"
OtherOrigin == "http://any.example"
Origins == {NoOrigin, AllowedOrigin, OtherOrigin}
AuthPath == "/api/auth/login"
Paths == {"/health", AuthPath, "/graphql"}
Rules == {"general", "auth", "graphql"}
\* values of config.rateLimit
RateLimits == {[windowMs |-> 1500, maxRequests |-> 2],
               [windowMs |-> 900000, maxRequests |-> 6]}
Configs == [env : Envs, cors : [origin : {AllowedOrigin}], rateLimit : RateLimits]
\* steps of the clock, in milliseconds
TickSteps == {1000, 900000}

\* Math.ceil(n / d)
Ceil(n, d) == (n + d - 1) \div d

isProduction == config.env = "production"
isDevelopment == config.env = "development"

\* Array.isArray(config.cors.origin) ? config.cors.origin : [config.cors.origin]
allowedOrigins == {config.cors.origin}

\* (variant: every origin is accepted)
OriginAny(origin) == TRUE
\* corsOptions.origin: callback(null, true) or callback(new Error(...))
OriginAllowed(origin) ==
    IF isDevelopment
    THEN TRUE
    ELSE origin = NoOrigin \/ origin \in allowedOrigins

\* windowMs of each limiter
WindowMs(rule) ==
    CASE rule = "general" -> config.rateLimit.windowMs
      [] rule = "auth"    -> 15 * 60 * 1000
      [] rule = "graphql" -> 1 * 60 * 1000

\* max of each limiter
MaxHits(rule) ==
    CASE rule = "general" -> config.rateLimit.maxRequests
      [] rule = "auth"    -> IF isProduction THEN 5 ELSE 50
      [] rule = "graphql" -> IF isProduction THEN 100 ELSE 1000

\* (variant: the general limiter skips nothing)
GeneralSkipNone(path) == FALSE
\* generalLimiter.skip
GeneralSkip(path) == path = "/health"

\* app.use(generalLimiter); app.use('/api/auth', authLimiter); app.use('/graphql', ...)
MountOrder == <<"general", "auth", "graphql">>
Applies(rule, path) ==
    CASE rule = "general" -> ~GeneralSkip(path)
      [] rule = "auth"    -> path = AuthPath
      [] rule = "graphql" -> path = "/graphql"
Chain(path) == SelectSeq(MountOrder, LAMBDA rule : Applies(rule, path))

\* the store's increment of the client's entry: a fixed window from the first hit
Increment(entry, rule, t) ==
    IF entry.hits = 0 \/ t >= entry.resetAt
    THEN [hits |-> 1, resetAt |-> t + WindowMs(rule)]
    ELSE [hits |-> entry.hits + 1, resetAt |-> entry.resetAt]

\* the limiters of chain from position k on: the store afterwards, the rule that
\* rejected the request ("none" if it passed), and the rules that counted it
RECURSIVE RunLimiters(_, _, _, _)
RunLimiters(chain, k, store, counted) ==
    IF k > Len(chain)
    THEN [store |-> store, by |-> "none", counted |-> counted]
    ELSE LET rule == chain[k]
             after == [store EXCEPT ![rule] = Increment(@, rule, now)]
         IN  IF after[rule].hits > MaxHits(rule)
             THEN [store |-> after, by |-> rule, counted |-> counted \cup {rule}]
             ELSE RunLimiters(chain, k + 1, after, counted \cup {rule})

\* the response of the limiter that rejected the request
Rejection(rule) ==
    CASE rule = "general" ->
            [status |-> 429, body |-> "Rate limit exceeded", json |-> TRUE,
             hasRetry |-> TRUE, retryAfter |-> Ceil(config.rateLimit.windowMs, 1000)]
      [] rule = "auth" ->
            [status |-> 429, body |-> "Too many authentication attempts", json |-> TRUE,
             hasRetry |-> TRUE, retryAfter |-> 15 * 60]
      [] rule = "graphql" ->
            [status |-> 429, body |-> "Too many requests, please try again later.",
             json |-> FALSE, hasRetry |-> FALSE, retryAfter |-> 0]

\* the route that answers a path: /health, Apollo on /graphql, and the catch-all
\* for the paths under /api/auth, which have no router
Route(path) ==
    CASE path = "/health"       -> [status |-> 200, body |-> "OK"]
      [] path = "/graphql"      -> [status |-> 200, body |-> "data"]
      [] path = AuthPath        -> [status |-> 404, body |-> "Endpoint not found"]

\* the services object of the /health response
HealthServices == [d \in Deps |-> "connected"]

NoRequest ==
    [path |-> "none", origin |-> NoOrigin, stage |-> "none", status |-> 0,
     body |-> "none", json |-> FALSE, hasRetry |-> FALSE, retryAfter |-> 0,
     remainingMs |-> 0, counted |-> {}, handled |-> FALSE,
     services |-> HealthServices, actual |-> [d \in Deps |-> "idle"]]

\* the response to a request stopped by cors(corsOptions): next(err) reaches the
\* error-handling middleware
CorsFailure(path, origin) ==
    [NoRequest EXCEPT !.path = path, !.origin = origin, !.stage = "cors",
                      !.status = 500, !.body = "Internal Server Error",
                      !.json = TRUE, !.actual = deps["g1"]]

\* the response to a request that passed cors, given the outcome of the limiters
Response(path, origin, out) ==
    IF out.by = "none"
    THEN [NoRequest EXCEPT !.path = path, !.origin = origin, !.stage = "route",
                           !.status = Route(path).status, !.body = Route(path).body,
                           !.json = TRUE, !.counted = out.counted, !.handled = TRUE,
                           !.actual = deps["g1"]]
    ELSE [NoRequest EXCEPT !.path = path, !.origin = origin, !.stage = out.by,
                           !.status = Rejection(out.by).status,
                           !.body = Rejection(out.by).body,
                           !.json = Rejection(out.by).json,
                           !.hasRetry = Rejection(out.by).hasRetry,
                           !.retryAfter = Rejection(out.by).retryAfter,
                           !.remainingMs = out.store[out.by].resetAt - now,
                           !.counted = out.counted,
                           !.actual = deps["g1"]]

\* authLimiter.skipSuccessfulRequests: a response below 400 is taken off the count
Settle(out, status) ==
    IF "auth" \in out.counted /\ status < 400
    THEN [out.store EXCEPT !["auth"].hits = @ - 1]
    ELSE out.store

\* the client's count of its own authentication attempts
Attempted(path) ==
    IF path # AuthPath
    THEN attempt
    ELSE IF attempt.n = 0 \/ now - attempt.since >= WindowMs("auth")
         THEN [n |-> 1, since |-> now]
         ELSE [attempt EXCEPT !.n = @ + 1]

\* one HTTP request through the middleware stack of the serving gateway
Request(path, origin) ==
    /\ listening["g1"]
    /\ \A rule \in Rules : limiter[rule].hits < MaxCount
    /\ IF ~OriginAllowed(origin)
       THEN /\ last' = CorsFailure(path, origin)
            /\ UNCHANGED <<limiter, attempt>>
       ELSE LET out == RunLimiters(Chain(path), 1, limiter, {})
                response == Response(path, origin, out)
            IN  /\ last' = response
                /\ limiter' = Settle(out, response.status)
                /\ attempt' = Attempted(path)
    /\ UNCHANGED <<config, now, ticks>>
    /\ UNCHANGED <<lifeVars, authVars, roomVars>>

\* time passes between two requests
Tick(d) ==
    /\ ticks < MaxTicks
    /\ ticks' = ticks + 1
    /\ now' = now + d
    /\ UNCHANGED <<config, limiter, last, attempt>>
    /\ UNCHANGED <<lifeVars, authVars, roomVars>>

\* the pipeline as built by startServer under configuration c, before any request
PipeStart(c) ==
    /\ config = c
    /\ now = 0
    /\ ticks = 0
    /\ limiter = [rule \in Rules |-> [hits |-> 0, resetAt |-> 0]]
    /\ last = NoRequest
    /\ attempt = [n |-> 0, since |-> 0]

PipeIdle ==
    PipeStart([env |-> "production", cors |-> [origin |-> AllowedOrigin],
               rateLimit |-> [windowMs |-> 900000, maxRequests |-> 6]])

(* ---------------------------------------------------------------------- *)
(* Specifications                                                          *)
(* ---------------------------------------------------------------------- *)
LifeInit ==
    /\ portState \in [Ports -> EnvStatus]
    /\ configPort \in Ports
    /\ pc = [r \in Runs |-> "off"]
    /\ probePort = [r \in Runs |-> 0]
    /\ PORT = [r \in Runs |-> 0]
    /\ deps = [r \in Runs |-> [d \in Deps |-> "idle"]]
    /\ listening = [r \in Runs |-> FALSE]
    /\ conns = [r \in Runs |-> 0]
    /\ exitCode = [r \in Runs |-> -1]
    /\ failure = [r \in Runs |-> "none"]
    /\ everBound = [r \in Runs |-> FALSE]
    /\ sigterm = [r \in Runs |-> FALSE]
    /\ calls = [r \in Runs |-> [resolve |-> 0, listen |-> 0]]
    /\ probes = [r \in Runs |-> <<>>]

Init == LifeInit /\ AuthIdle /\ RoomIdle /\ PipeIdle

\* the steps the process itself takes once it is draining
DrainStep(r) ==
    \/ ApolloStop(r)
    \/ CloseConnections(r)
    \/ HttpClose(r)
    \/ ExitAfterDrain(r)

LifeStep(r) ==
    \/ Launch(r)
    \/ InitRealtime(r)
    \/ ConnectNeo4j(r)
    \/ ConnectPostgres(r)
    \/ ConnectRedis(r)
    \/ Setup(r)
    \/ ProbeListen(r)
    \/ ProbeClose(r)
    \/ RealListen(r)
    \/ ServerError(r)
    \/ Accept(r)
    \/ ConnEnd(r)
    \/ Sigterm(r)
    \/ DrainStep(r)
    \/ Fault(r)

\* the lifecycle of two gateway processes started on one host
Next == \E r \in Runs : LifeStep(r)

Spec == Init /\ [][Next]_vars

\* the event loop runs every ready continuation of the SIGTERM handler
FairSpec == Spec /\ \A r \in Runs : WF_vars(DrainStep(r))

\* one resolver run against a fixed assignment of the ports
PortInit ==
    /\ portState \in [Ports -> EnvStatus]
    /\ configPort \in Ports
    /\ pc = [r \in Runs |-> IF r = "g1" THEN "resolve" ELSE "off"]
    /\ probePort = [r \in Runs |-> IF r = "g1" THEN configPort ELSE 0]
    /\ PORT = [r \in Runs |-> 0]
    /\ deps = [r \in Runs |-> [d \in Deps |-> IF r = "g1" THEN "connected" ELSE "idle"]]
    /\ listening = [r \in Runs |-> FALSE]
    /\ conns = [r \in Runs |-> 0]
    /\ exitCode = [r \in Runs |-> -1]
    /\ failure = [r \in Runs |-> "none"]
    /\ everBound = [r \in Runs |-> FALSE]
    /\ sigterm = [r \in Runs |-> FALSE]
    /\ calls = [r \in Runs |-> [resolve |-> IF r = "g1" THEN 1 ELSE 0, listen |-> 0]]
    /\ probes = [r \in Runs |-> <<>>]
    /\ AuthIdle
    /\ RoomIdle
    /\ PipeIdle

PortNext == ProbeListen("g1") \/ ProbeClose("g1")

SpecPort == PortInit /\ [][PortNext]_vars

\* gateway g1 serving on config.port, nothing else on the host
ServingInit ==
    /\ configPort = Min(Ports)
    /\ portState = [p \in Ports |-> IF p = configPort THEN "g1" ELSE "free"]
    /\ pc = [r \in Runs |-> IF r = "g1" THEN "serving" ELSE "off"]
    /\ probePort = [r \in Runs |-> IF r = "g1" THEN configPort ELSE 0]
    /\ PORT = [r \in Runs |-> IF r = "g1" THEN configPort ELSE 0]
    /\ deps = [r \in Runs |-> [d \in Deps |-> IF r = "g1" THEN "connected" ELSE "idle"]]
    /\ listening = [r \in Runs |-> r = "g1"]
    /\ conns = [r \in Runs |-> 0]
    /\ exitCode = [r \in Runs |-> -1]
    /\ failure = [r \in Runs |-> "none"]
    /\ everBound = [r \in Runs |-> r = "g1"]
    /\ sigterm = [r \in Runs |-> FALSE]
    /\ calls = [r \in Runs |-> IF r = "g1" THEN [resolve |-> 1, listen |-> 1]
                                            ELSE [resolve |-> 0, listen |-> 0]]
    /\ probes = [r \in Runs |-> IF r = "g1" THEN <<configPort>> ELSE <<>>]

AuthInit == ServingInit /\ AuthIdle /\ RoomIdle /\ PipeIdle

AuthNext ==
    \/ \E h \in Headers : HttpRequest(h)
    \/ \E c \in WsConns, h \in Headers : WsConnect(c, h)
    \/ \E c \in WsConns : WsOperation(c)
    \/ \E c \in WsConns : WsClose(c)

\* requests and subscription connections on a serving gateway
SpecAuth == AuthInit /\ [][AuthNext]_vars

RoomInit == ServingInit /\ AuthIdle /\ RoomIdle /\ PipeIdle

RoomNext ==
    \/ \E s \in Sockets : SocketConnect(s)
    \/ \E s \in Sockets, i \in InvestigationIds : JoinInvestigation(s, i)
    \/ \E s \in Sockets, i \in InvestigationIds : LeaveInvestigation(s, i)
    \/ \E s \in Sockets : Disconnect(s)
    \/ \E i \in InvestigationIds : Broadcast(i)

\* real-time sockets on a serving gateway
SpecRooms == RoomInit /\ [][RoomNext]_vars

PipeInit == ServingInit /\ AuthIdle /\ RoomIdle /\ \E c \in Configs : PipeStart(c)

PipeNext ==
    \/ \E path \in Paths, origin \in Origins : Request(path, origin)
    \/ \E d \in TickSteps : Tick(d)

\* one client's requests to a serving gateway, under every configuration
SpecPipe == PipeInit /\ [][PipeNext]_vars

HealthInit == ServingInit /\ AuthIdle /\ RoomIdle /\ PipeIdle

\* GET /health on the serving gateway
HealthCheck == \E origin \in Origins : Request("/health", origin)

HealthNext ==
    \/ \E r \in Runs : LifeStep(r)
    \/ HealthCheck

\* liveness checks of gateway g1 along the lifecycle of both processes
SpecHealth == HealthInit /\ [][HealthNext]_vars

(* ---------------------------------------------------------------------- *)
(* Claims on port resolution and the lifecycle                             *)
(* ---------------------------------------------------------------------- *)
ProbeRange == configPort..PortLimit
FreeInRange == {q \in ProbeRange : portState[q] = "free"}
ResolverDone == pc["g1"] \in {"bind", "exited"}

\* C1: with every port of [p,b] either free or occupied, the resolver returns
\* the smallest free port >= p when there is one, and otherwise fails with
\* the range-exhausted error without returning a port; until then it can step.
C1_SmallestFreePort ==
    /\ ResolverDone \/ ENABLED PortNext
    /\ (ResolverDone /\ \A q \in ProbeRange : portState[q] # "denied") =>
          IF FreeInRange # {}
          THEN /\ pc["g1"] = "bind"
               /\ PORT["g1"] = Min(FreeInRange)
               /\ failure["g1"] = "none"
          ELSE /\ pc["g1"] = "exited"
               /\ failure["g1"] = "PortRangeExhausted"
               /\ exitCode["g1"] = 1
               /\ PORT["g1"] = 0
               /\ ~everBound["g1"]

\* the resolver skipped an occupied port and returned a later free one
C1_Witness ==
    /\ pc["g1"] = "bind"
    /\ PORT["g1"] > configPort
    /\ \A q \in ProbeRange : portState[q] # "denied"
    /\ \E q \in ProbeRange : q > PORT["g1"] /\ portState[q] = "free"

\* C2: a listener (probe or real) binds only after the three connections have
\* succeeded; a failed connection ends the run with a non-zero exit status and
\* no listener has bound before.
C2_StartupGating ==
    \A r \in Runs :
        /\ everBound[r] => \A d \in Deps : deps[r][d] # "idle"
        /\ listening[r] => \A d \in Deps : deps[r][d] # "idle"
        /\ failure[r] = "dependency" =>
              /\ pc[r] = "exited"
              /\ exitCode[r] # 0
              /\ ~everBound[r]
              /\ ~listening[r]

\* one run failed on its third connection, another run is serving
C2_Witness ==
    \E r, s \in Runs :
        /\ failure[r] = "dependency"
        /\ deps[r]["postgres"] = "connected"
        /\ pc[s] = "serving"

\* C3: after SIGTERM no dependency is closed while the listener still accepts
\* connections, and exit status 0 comes only once no connection is left and
\* every dependency is closed.
C3_ShutdownOrder ==
    \A r \in Runs :
        /\ listening[r] => \A d \in Deps : deps[r][d] # "closed"
        /\ (pc[r] = "exited" /\ exitCode[r] = 0) =>
              /\ sigterm[r]
              /\ \A d \in Deps : deps[r][d] = "closed"

\* C4: once SIGTERM has been received while serving, the process eventually
\* exits, whatever its clients do with their connections.
C4_DrainTerminates ==
    \A r \in Runs : sigterm[r] ~> (pc[r] = "exited")

\* the fault reached the handlers while the run was serving
FaultedWhileServing(r) ==
    failure[r] = "fault" /\ calls[r].listen = 1 /\ ~sigterm[r]

\* C5: an uncaught exception or unhandled rejection ends the run at once with a
\* non-zero exit status: the run is not serving afterwards and its status is not 0.
C5_FatalFault ==
    \A r \in Runs :
        failure[r] = "fault" =>
            /\ pc[r] = "exited"
            /\ exitCode[r] # 0
            /\ ~listening[r]
            /\ conns[r] = 0

\* a fault while serving, with exit status 1
C5_Witness ==
    \E r \in Runs : FaultedWhileServing(r) /\ exitCode[r] = 1

\* C6: two runs whose probes returned the same port never both listen on it; the
\* run that meets the bind conflict exits non-zero, and no run calls the resolver
\* or httpServer.listen a second time.
C6_ProbeBindRace ==
    /\ \A r, s \in Runs :
          (r # s /\ listening[r] /\ listening[s]) => PORT[r] # PORT[s]
    /\ \A r \in Runs :
          /\ calls[r].resolve <= 1
          /\ calls[r].listen <= 1
          /\ failure[r] = "bindConflict" =>
                /\ pc[r] = "exited"
                /\ exitCode[r] # 0
                /\ calls[r].resolve = 1
                /\ calls[r].listen = 1

\* both probes returned the same port; one run serves, the other met the conflict
C6_Witness ==
    \E r, s \in Runs :
        /\ r # s
        /\ PORT[r] = PORT[s]
        /\ listening[r]
        /\ failure[s] = "bindConflict"

(* ---------------------------------------------------------------------- *)
(* Claims on the auth context                                              *)
(* ---------------------------------------------------------------------- *)
\* the header carries no credential: absent, empty, or the bare scheme prefix
MissingCredential(h) == ~h.def \/ h.text \in {<<>>, <<"Bearer ">>}

\* the resolutions made so far, of requests and of handshakes
Resolutions ==
    (IF lastReq.ctx # 0
     THEN {[hdr |-> lastReq.hdr, ctx |-> lastReq.ctx, reply |-> lastReq.reply,
            rejected |-> lastReq.rejected]}
     ELSE {})
    \cup
    {[hdr |-> wsConn[c].params, ctx |-> wsConn[c].ctx, reply |-> wsConn[c].reply,
      rejected |-> wsConn[c].rejected] : c \in {d \in WsConns : wsConn[d].state # "new"}}

C8_TransportUniform ==
    \A c \in WsConns :
        (wsConn[c].state = "open" /\ lastReq.ctx # 0 /\ lastReq.hdr = wsConn[c].params) =>
            /\ DOMAIN heap[lastReq.ctx] = DOMAIN heap[wsConn[c].ctx]
            /\ heap[lastReq.ctx].user = heap[wsConn[c].ctx].user

\* C9: on an open connection the credential is verified once, at connect time
\* (never when there is none); every operation gets the context object built
\* then, and its user is the one resolved then.
C9_ContextComputedOnce ==
    \A c \in WsConns :
        wsConn[c].state # "new" =>
            /\ wsConn[c].verifies = IF wsConn[c].reply = "notCalled" THEN 0 ELSE 1
            /\ wsConn[c].opCtx \subseteq {wsConn[c].ctx}
            /\ heap[wsConn[c].ctx].user = wsConn[c].user0

\* two operations on a verified connection, with a request context built later
C9_Witness ==
    \E c \in WsConns :
        /\ wsConn[c].state = "open"
        /\ wsConn[c].ops >= 2
        /\ wsConn[c].verifies = 1
        /\ wsConn[c].user0 = "alice"
        /\ wsConn[c].opCtx = {wsConn[c].ctx}
        /\ lastReq.ctx > wsConn[c].ctx

(* ---------------------------------------------------------------------- *)
(* Claims on rooms                                                         *)
(* ---------------------------------------------------------------------- *)
\* C10: a disconnected socket is in no room and receives no broadcast; a room
\* holds exactly the connected sockets whose last join/leave for it was a join.
C10_NoStaleMembership ==
    /\ \A i \in InvestigationIds :
          rooms[RoomName(i)] =
              {s \in Sockets : sockState[s] = "connected" /\ lastEvt[s][i] = "join"}
    /\ \A s \in Sockets :
          sockState[s] = "disconnected" => \A rn \in RoomNames : s \notin rooms[rn]
    /\ lastBroadcast.gone = {}

\* a socket joined a room and disconnected without leaving; a later broadcast to
\* that room reached another member and not the disconnected socket
C10_Witness ==
    \E s \in Sockets, i \in InvestigationIds :
        /\ sockState[s] = "disconnected"
        /\ lastEvt[s][i] = "join"
        /\ lastBroadcast.sent
        /\ lastBroadcast.room = RoomName(i)
        /\ lastBroadcast.to # {}
        /\ s \notin lastBroadcast.to

\* C11: a join by a socket that is already a member, and a leave by a socket that
\* is not one, change no membership and leave the socket connected; any join or
\* leave touches only that socket's membership of that one room.
C11_IdempotentJoinLeave ==
    [][ /\ repeat' # "none" => (rooms' = rooms /\ sockState' = sockState)
        /\ \A s \in Sockets, i \in InvestigationIds :
              lastEvt'[s][i] # lastEvt[s][i] =>
                  /\ \A rn \in RoomNames \ {RoomName(i)} : rooms'[rn] = rooms[rn]
                  /\ rooms'[RoomName(i)] \ {s} = rooms[RoomName(i)] \ {s}
                  /\ (s \in rooms'[RoomName(i)]) = (lastEvt'[s][i] = "join") ]_vars

\* a member of a room has just joined it again, beside another member
C11_Witness ==
    /\ repeat = "join"
    /\ \E s, t \in Sockets, i \in InvestigationIds :
          s # t /\ {s, t} \subseteq rooms[RoomName(i)]

(* ---------------------------------------------------------------------- *)
(* Claims on the probe                                                     *)
(* ---------------------------------------------------------------------- *)
\* the ports run r holds with a listener
HeldBy(r) == {p \in Ports : portState[p] = r}

\* C20: the resolver probes consecutive ports from its start port, going on only
\* after a bind conflict; another bind error ends it with that error at once;
\* it never holds two probe listeners, and holds none when it returns the port.
C20_ProbeErrors ==
    LET tried == probes["g1"] IN
    /\ \A k \in 1..Len(tried) : tried[k] = configPort + k - 1
    /\ \A k \in 1..(Len(tried) - 1) : portState[tried[k]] = "ext"
    /\ Cardinality(HeldBy("g1")) <= 1
    /\ pc["g1"] = "resolve" => (HeldBy("g1") = {} /\ probePort["g1"] = configPort + Len(tried))
    /\ pc["g1"] = "bind" => (HeldBy("g1") = {} /\ PORT["g1"] = tried[Len(tried)])
    /\ failure["g1"] = "probeError" =>
          /\ pc["g1"] = "exited"
          /\ exitCode["g1"] # 0
          /\ portState[tried[Len(tried)]] = "denied"
    /\ (pc["g1"] = "exited" /\ portState[tried[Len(tried)]] = "denied") =>
          failure["g1"] = "probeError"

\* the second probe met a refusal after a conflict on the first port
C20_Witness ==
    /\ failure["g1"] = "probeError"
    /\ Len(probes["g1"]) = 2
    /\ \E q \in ProbeRange : q > probes["g1"][2] /\ portState[q] = "free"

(* ---------------------------------------------------------------------- *)
(* Claims on the request pipeline                                          *)
(* ---------------------------------------------------------------------- *)
\* the response was a rejection by a rate limiter
RateLimited == last.stage \in Rules

\* C12: the request that takes a rule's count over its ceiling is rejected by that
\* rule, and a rate-limit rejection carries a retry-after equal to the seconds
\* that remain in the rule's current window.
C12_RetryAfterRemaining ==
    /\ \A rule \in Rules :
          (rule \in last.counted /\ limiter[rule].hits > MaxHits(rule)) => last.stage = rule
    /\ RateLimited =>
          /\ last.hasRetry
          /\ last.retryAfter = Ceil(last.remainingMs, 1000)

\* C13: in production, of the authentication attempts of one client within 15
\* minutes, none of the first 5 is rejected by the authentication rule and the
\* 6th is rejected with retryAfter = 900.
C13_AuthCeilingProduction ==
    (isProduction /\ last.path = AuthPath /\ last.stage # "cors") =>
        /\ attempt.n <= 5 => last.stage # "auth"
        /\ attempt.n = 6 =>
              /\ last.status = 429
              /\ last.hasRetry
              /\ last.retryAfter = 900

\* C14: in development a request to /graphql passes origin validation whatever
\* its origin, and is rejected by rate limiting only by the GraphQL rule, once
\* the client has sent more than 1000 requests within the minute.
C14_GraphqlCeilingDevelopment ==
    (isDevelopment /\ last.path = "/graphql") =>
        /\ last.stage # "cors"
        /\ RateLimited => (last.stage = "graphql" /\ limiter["graphql"].hits > 1000)

\* C15: in production a request whose origin is present and not in the allow-list
\* stops at origin validation: no limiter counts it and no route handler or
\* GraphQL context function runs for it.
C15_OriginRejectionShortCircuits ==
    [][ (isProduction /\ now' = now /\ last'.origin \notin allowedOrigins \cup {NoOrigin}) =>
            /\ last'.stage = "cors"
            /\ limiter' = limiter
            /\ last'.counted = {}
            /\ ~last'.handled ]_vars

\* a request from a foreign origin was turned away after counted traffic
C15_Witness ==
    /\ isProduction
    /\ last.stage = "cors"
    /\ last.origin = OtherOrigin
    /\ limiter["general"].hits > 0
    /\ limiter["graphql"].hits > 0

\* C16: a CORS violation and a rate-limit violation are answered with a 4xx status
\* and a structured body, and leave the gateway serving.
C16_ClientLevelFailures ==
    (last.stage = "cors" \/ RateLimited) =>
        /\ last.status \in 400..499
        /\ last.json
        /\ pc["g1"] = "serving"
        /\ exitCode["g1"] = -1

\* C17: outside production every origin is accepted; in production a request is
\* accepted exactly when it has no origin or its origin is in the allow-list.
C17_OriginByEnvironment ==
    last.path # "none" =>
        IF isProduction
        THEN (last.stage # "cors") <=> (last.origin = NoOrigin \/ last.origin \in allowedOrigins)
        ELSE last.stage # "cors"

\* C18: a request to /health is never rejected by a rate limiter and changes no
\* counter of any rule; when its origin is accepted it is answered 200.
C18_HealthBypassesLimits ==
    [][ (now' = now /\ last'.path = "/health") =>
            /\ last'.stage \notin Rules
            /\ limiter' = limiter
            /\ last'.counted = {}
            /\ OriginAllowed(last'.origin) => last'.status = 200 ]_vars

\* /health answered while the client is over the ceiling of the general rule
C18_Witness ==
    /\ last.path = "/health"
    /\ last.status = 200
    /\ limiter["general"].hits > MaxHits("general")

\* C19: the status /health reports for each dependency is the state of that
\* dependency's connection at the time of the response.
C19_HealthReflectsDeps ==
    (last.path = "/health" /\ last.status = 200) =>
        \A d \in Deps : (last.services[d] = "connected") <=> (last.actual[d] = "connected")

====
